---- MODULE Spec2Model ----
(***************************************************************************)
(* The iterative agentic search engine of the backend:                     *)
(*   src/backend/api/services/agents/search/agentic_search_service.py      *)
(*   src/backend/api/agents/agentic_search/router.py and models.py         *)
(* Strings on which the code works by offset (research text, citation      *)
(* markers, answers) are sequences of symbols; every other string is       *)
(* atomic.  The event stream of execute_agentic_search_stream is an async  *)
(* generator: one action is one resumption of the generator by its         *)
(* consumer, from the yield it is parked at to the next yield.             *)
(***************************************************************************)
EXTENDS Integers, Sequences, FiniteSets, TLC

VARIABLES
    entry,                  \* "stream" | "sync" | "cite": the operation under way
    request,                \* the validated AgenticSearchRequest
    gemini_api_key,         \* TRUE iff GEMINI_API_KEY is set
    pc,                     \* the yield the generator is parked at
    iteration_count,
    queries,
    qi,                     \* index i of the for loop over queries (0-based)
    iteration_results,
    iteration_sources,
    web_research_results,
    sources_gathered,
    iterations,             \* the local search_iterations, line 485
    all_search_queries,
    all_grounding_supports,
    texts_with_citations,
    reflection_result,
    synth,                  \* state of _finalize_answer_streaming
    final_answer_parts,
    response,               \* the AgenticSearchResponse built at line 687
    events,                 \* every event yielded so far, in order
    calls,                  \* every provider call issued so far, in order
    research_log,           \* outcome of every _web_research call, in order
    fault,                  \* TRUE once an exception reached the handler at line 721
    sync_result,            \* outcome of execute_agentic_search
    cite,                   \* input and output of one _add_inline_citations call
    score,                  \* inputs and outputs of _calculate_research_completeness
    consumer,               \* "pulling" | "stopped": the async for loop driving the generator
    parked,                 \* the frame of a second run, suspended at a yield
    reflected               \* the summaries argument of the last _reflection call

vars == <<entry, request, gemini_api_key, pc, iteration_count, queries, qi,
          iteration_results, iteration_sources, web_research_results,
          sources_gathered, iterations, all_search_queries,
          all_grounding_supports, texts_with_citations, reflection_result,
          synth, final_answer_parts, response, events, calls, research_log,
          fault, sync_result, cite, score, consumer, parked, reflected>>

----------------------------------------------------------------------------
(* Bounds of the model *)

MaxGenerated == 3       \* longest query list the query generator returns
MaxFollowUps == 4       \* longest follow_up_queries list reflection returns
MaxResearchCalls == 4   \* most _web_research calls of one modelled run
MaxTextLen == 3         \* longest text given to _add_inline_citations
MaxSupports == 2        \* most grounding supports given to it
MaxSources == 20        \* most sources given to _calculate_research_completeness
MaxTwoRunCalls == 1     \* most _web_research calls of each of two interleaved runs
MaxSummaries == 10      \* most summaries given to _reflection called on its own

(* Program constants *)

RESEARCH_COMPLETENESS_DIVISOR == 10
MAX_FALLBACK_SOURCES == 5
MAX_ITERATIONS_LE == 5
MAX_ITERATIONS_GE == 1
MAX_ITERATIONS_DEFAULT == 3
FOLLOW_UP_SLICE == 3
SUPPORTED_SEGMENTS_SLICE == 3

depth_configs ==
    [quick    |-> [max_iterations |-> 1, number_of_initial_queries |-> 2],
     standard |-> [max_iterations |-> 2, number_of_initial_queries |-> 3],
     deep     |-> [max_iterations |-> 3, number_of_initial_queries |-> 5]]

SearchDepths == {"quick", "standard", "deep"}

----------------------------------------------------------------------------
(* Sequence helpers *)

Min(a, b) == IF a <= b THEN a ELSE b

\* the list without the slice
MutNoSlice(s, n) == s

Take(s, n) == SubSeq(s, 1, Min(n, Len(s)))

RECURSIVE Flatten(_)
Flatten(ss) == IF ss = <<>> THEN <<>> ELSE Head(ss) \o Flatten(Tail(ss))

Range(s) == {s[k] : k \in DOMAIN s}

----------------------------------------------------------------------------
(* _add_inline_citations, lines 335-391 *)

StartsWithHttp(uri) == uri # <<>> /\ Head(uri) \in {"http://", "https://"}

\* one entry of citation_links for source index i (0-based), lines 360-374
CitationLink(i, sources) ==
    IF i < Len(sources)
    THEN LET uri == sources[i + 1].url
             citation_number == i + 1
         IN  IF StartsWithHttp(uri)
             THEN << <<"[", ToString(citation_number), "]", "(">> \o uri \o <<")">> >>
             ELSE << <<"[", ToString(citation_number), "]">> >>
    ELSE <<>>

RECURSIVE CitationLinks(_, _)
CitationLinks(source_indices, sources) ==
    IF source_indices = <<>> THEN <<>>
    ELSE CitationLink(Head(source_indices), sources)
            \o CitationLinks(Tail(source_indices), sources)

\* ", ".join(citation_links)
RECURSIVE JoinComma(_)
JoinComma(links) ==
    IF links = <<>> THEN <<>>
    ELSE IF Len(links) = 1 THEN Head(links)
    ELSE Head(links) \o <<",", " ">> \o JoinComma(Tail(links))

CitationString(support, sources) ==
    JoinComma(CitationLinks(support.source_indices, sources))

\* sorted(grounding_supports, key=end_index, reverse=True): the sort is stable,
\* supports of equal end_index keep their input order
RECURSIVE InsertByEndDesc(_, _)
InsertByEndDesc(s, lst) ==
    IF lst = <<>> THEN <<s>>
    ELSE IF Head(lst).end_index >= s.end_index
         THEN <<Head(lst)>> \o InsertByEndDesc(s, Tail(lst))
         ELSE <<s>> \o lst

RECURSIVE SortFrom(_, _)
SortFrom(done, todo) ==
    IF todo = <<>> THEN done
    ELSE SortFrom(InsertByEndDesc(Head(todo), done), Tail(todo))

\* the supports left in their input order
MutUnsorted(supports) == supports

sorted_supports(supports) == SortFrom(<<>>, supports)

\* lines 353-382: one pass of the loop body on the text built so far
InsertCitation(text_with_citations, support, sources) ==
    LET end_index == support.end_index
        citation_string == CitationString(support, sources)
    IN  IF support.source_indices # <<>>
           /\ end_index <= Len(text_with_citations)
           /\ citation_string # <<>>
        THEN SubSeq(text_with_citations, 1, end_index)
                \o citation_string
                \o SubSeq(text_with_citations, end_index + 1, Len(text_with_citations))
        ELSE text_with_citations

RECURSIVE InsertAll(_, _, _)
InsertAll(text, sorted, sources) ==
    IF sorted = <<>> THEN text
    ELSE InsertAll(InsertCitation(text, Head(sorted), sources), Tail(sorted), sources)

add_inline_citations(text, grounding_supports, sources) ==
    IF text = <<>> \/ grounding_supports = <<>>
    THEN text
    ELSE InsertAll(text, sorted_supports(grounding_supports), sources)

----------------------------------------------------------------------------
(* What the provider can answer *)

Topic == "X"

\* a grounded-generation response without grounding metadata
RespPlain ==
    [grounding_metadata |-> FALSE, text |-> <<"p">>, chunks |-> <<>>,
     supports |-> <<>>, web_search_queries |-> <<>>]

\* a grounded-generation response with two web chunks and two supports
RespGrounded ==
    [grounding_metadata |-> TRUE, text |-> <<"a", "b">>,
     chunks |-> << [web |-> TRUE, uri |-> <<"https://", "s1">>, title |-> "T1",
                    snippet |-> "n1"],
                   [web |-> TRUE, uri |-> <<>>, title |-> "", snippet |-> ""] >>,
     supports |-> << [text |-> <<"a">>, start_index |-> 0, end_index |-> 1,
                      grounding_chunk_indices |-> <<0>>],
                     [text |-> <<"a", "b">>, start_index |-> 0, end_index |-> 2,
                      grounding_chunk_indices |-> <<0, 1>>] >>,
     web_search_queries |-> <<"wq">>]

Responses == {RespPlain, RespGrounded}

Failure == [ok |-> FALSE]

ResearchOutcomes == {Failure} \cup {[ok |-> TRUE, reply |-> r] : r \in Responses}

QueryList(n) == [k \in 1..n |-> "q" \o ToString(k)]

FollowUpList(n) == [k \in 1..n |-> "f" \o ToString(k)]

\* the structured output of the query generator: any list of strings
GenerateOutcomes ==
    {Failure} \cup {[ok |-> TRUE, query |-> QueryList(n)] : n \in {0, 1, MaxGenerated}}

\* the structured output of reflection
ReflectionOutcomes ==
    {Failure}
    \cup {[ok |-> TRUE, is_sufficient |-> FALSE, knowledge_gap |-> "gap",
           follow_up_queries |-> FollowUpList(n)] : n \in {0, 1, MaxFollowUps}}
    \cup {[ok |-> TRUE, is_sufficient |-> TRUE, knowledge_gap |-> "",
           follow_up_queries |-> FollowUpList(n)] : n \in {0, 1}}

\* a streamed completion: its deltas in order (<<>> is a delta without content),
\* then either the end of the stream or an error
SynthesisOutcomes ==
    { [chunks |-> << <<"s1">>, <<>>, <<"s2">> >>, fails |-> FALSE],
      [chunks |-> <<>>, fails |-> TRUE],
      [chunks |-> << <<"s1">> >>, fails |-> TRUE] }

----------------------------------------------------------------------------
(* _extract_sources_from_response, lines 189-333 *)

\* lines 222-248
SegmentInfo(support) ==
    [text |-> support.text, start_index |-> support.start_index,
     end_index |-> support.end_index,
     source_indices |-> support.grounding_chunk_indices]

\* lines 254-292, for the chunk at 0-based position i
SourceOfChunk(i, chunk, grounding_supports) ==
    LET title == IF chunk.title # "" THEN chunk.title
                 ELSE "Source " \o ToString(i + 1)
        supported_segments ==
            SelectSeq(grounding_supports,
                      LAMBDA s : i \in Range(s.source_indices))
    IN  [title |-> title,
         url |-> chunk.uri,
         snippet |-> IF chunk.snippet # "" THEN chunk.snippet ELSE title,
         chunk_index |-> i,
         supported_segments_count |-> Len(supported_segments),
         supported_segments |->
            [k \in 1..Min(SUPPORTED_SEGMENTS_SLICE, Len(supported_segments)) |->
                supported_segments[k].text]]

RECURSIVE SourcesFrom(_, _, _)
SourcesFrom(i, chunks, grounding_supports) ==
    IF i >= Len(chunks) THEN <<>>
    ELSE (IF chunks[i + 1].web
          THEN <<SourceOfChunk(i, chunks[i + 1], grounding_supports)>>
          ELSE <<>>)
         \o SourcesFrom(i + 1, chunks, grounding_supports)

extract_sources_from_response(resp) ==
    LET has == resp.grounding_metadata
        grounding_supports ==
            IF has THEN [k \in DOMAIN resp.supports |-> SegmentInfo(resp.supports[k])]
            ELSE <<>>
        sources == IF has THEN SourcesFrom(0, resp.chunks, grounding_supports)
                   ELSE <<>>
        response_text == IF has THEN resp.text ELSE <<>>
    IN  [sources |-> sources,
         search_queries |-> IF has THEN resp.web_search_queries ELSE <<>>,
         grounding_supports |-> grounding_supports,
         response_text |-> response_text,
         text_with_citations |->
            add_inline_citations(response_text, grounding_supports, sources)]

----------------------------------------------------------------------------
(* _web_research, lines 757-792: None (Failure) when the provider call or the
   extraction raises *)

\* genai_client is None without a key (line 64), and line 766 raises
web_research(key, outcome) ==
    IF ~key \/ ~outcome.ok THEN Failure
    ELSE LET extraction_result == extract_sources_from_response(outcome.reply)
             final_text == IF extraction_result.text_with_citations # <<>>
                           THEN extraction_result.text_with_citations
                           ELSE outcome.reply.text
         IN  [ok |-> TRUE,
              summary |-> final_text,
              sources |-> extraction_result.sources,
              search_queries |-> extraction_result.search_queries,
              grounding_supports |-> extraction_result.grounding_supports,
              response_text |-> extraction_result.response_text,
              text_with_citations |-> extraction_result.text_with_citations]

(* _generate_queries, lines 725-755 *)

\* a failure would leave the run without queries
MutNoFallbackQuery(query, max_queries, key, outcome) ==
    IF ~key \/ ~outcome.ok THEN <<>> ELSE outcome.query

generate_queries(query, max_queries, key, outcome) ==
    IF ~key \/ ~outcome.ok THEN <<query>> ELSE outcome.query

(* _reflection, lines 794-833 *)

\* a fallback that goes on asking for more at every pass
MutFallbackNeverSufficient(research_topic, summaries, iter_count, outcome) ==
    IF outcome.ok
    THEN [is_sufficient |-> outcome.is_sufficient,
          knowledge_gap |-> outcome.knowledge_gap,
          follow_up_queries |-> outcome.follow_up_queries]
    ELSE [is_sufficient |-> FALSE,
          knowledge_gap |-> "Need more comprehensive information",
          follow_up_queries |-> <<research_topic \o " additional details">>]

reflection(research_topic, summaries, iter_count, outcome) ==
    IF outcome.ok
    THEN [is_sufficient |-> outcome.is_sufficient,
          knowledge_gap |-> outcome.knowledge_gap,
          follow_up_queries |-> outcome.follow_up_queries]
    ELSE [is_sufficient |-> (iter_count >= 2 \/ Len(summaries) >= 3),
          knowledge_gap |-> IF iter_count >= 2 THEN ""
                            ELSE "Need more comprehensive information",
          follow_up_queries |-> IF iter_count >= 2 THEN <<>>
                                ELSE <<research_topic \o " additional details">>]

(* _calculate_research_completeness, lines 82-84, in tenths *)

\* the quotient without the cap of min
MutNoCap(sources) == Len(sources)

calculate_research_completeness(sources) ==
    Min(RESEARCH_COMPLETENESS_DIVISOR, Len(sources))

(* _prepare_citations, lines 928-942 *)

prepare_citations(sources) ==
    [k \in DOMAIN sources |->
        [title |-> sources[k].title, url |-> sources[k].url,
         snippet |-> sources[k].snippet, source_type |-> "google"]]

(* the fallback of _finalize_answer_streaming, lines 879-889 *)

FallbackEntry(i, source) ==
    <<ToString(i), ". **", source.title, "**: ", source.snippet, "NL">>
    \o (IF source.url # <<>> THEN <<"   Source: ">> \o source.url \o <<"NL">>
        ELSE <<>>)

fallback_answer(research_topic, sources) ==
    IF sources # <<>>
    THEN <<"Based on my research about '", research_topic, "', I found ",
           ToString(Len(sources)), " relevant sources:NLNL">>
         \o Flatten([i \in 1..Min(MAX_FALLBACK_SOURCES, Len(sources)) |->
                        FallbackEntry(i, sources[i])])
    ELSE <<"I searched for information about '", research_topic,
           "' but couldn't find sufficient results to provide a comprehensive answer.">>

(* _create_fallback_response, lines 448-466 *)

create_fallback_response(query) ==
    [query |-> query,
     final_answer |-> <<"I searched for information about '", query,
                        "' but encountered an issue processing the results.">>,
     total_iterations |-> 0,
     search_iterations |-> <<>>,
     sources |-> <<>>,
     source_count |-> 0,
     research_completeness |-> 0]

----------------------------------------------------------------------------
(* The state after construction *)

None == [none |-> TRUE]

\* AgenticSearchRequest, models.py lines 19-53: every max_iterations with the
\* other fields at their defaults, and every depth and citation choice with
\* max_iterations at its default
Requests ==
    {[query |-> Topic, max_iterations |-> m, search_depth |-> "standard",
      include_citations |-> TRUE] : m \in MAX_ITERATIONS_GE..MAX_ITERATIONS_LE}
    \cup
    {[query |-> Topic, max_iterations |-> MAX_ITERATIONS_DEFAULT,
      search_depth |-> d, include_citations |-> c] :
        d \in SearchDepths, c \in BOOLEAN}

InitRun ==
    /\ pc = "start"
    /\ iteration_count = 0
    /\ queries = <<>>
    /\ qi = 0
    /\ iteration_results = <<>>
    /\ iteration_sources = <<>>
    /\ web_research_results = <<>>
    /\ sources_gathered = <<>>
    /\ iterations = <<>>
    /\ all_search_queries = <<>>
    /\ all_grounding_supports = <<>>
    /\ texts_with_citations = <<>>
    /\ reflection_result = None
    /\ synth = None
    /\ final_answer_parts = <<>>
    /\ response = None
    /\ events = <<>>
    /\ calls = <<>>
    /\ research_log = <<>>
    /\ fault = FALSE
    /\ sync_result = None
    /\ consumer = "pulling"
    /\ reflected = <<>>

Init ==
    /\ entry \in {"stream", "sync"}
    /\ request \in Requests
    /\ gemini_api_key \in BOOLEAN
    /\ cite = None
    /\ score = None
    /\ parked = None
    /\ InitRun

----------------------------------------------------------------------------
(* StreamingAgent.emit_event, base_agent.py lines 123-135 *)

emit_event(event_type, data) == [type |-> event_type, data |-> data]

Yield(event, at) ==
    /\ events' = Append(events, event)
    /\ pc' = at

(* _validate_gemini_api_key, lines 73-76: TRUE when it returns, FALSE when it
   raises ValueError *)

MutNeverRaises(key) == TRUE

validate_gemini_api_key(key) == key

(* execute_agentic_search_stream, lines 468-723 *)

\* line 494: where the generator is after the error event of a failed validation
MutNoReturn == "generating_queries"

after_credential_error == "error"

\* line 527
MutNoIncrement(ic) == ic

\* the count going up by two
MutCountsByTwo(ic) == ic + 2

next_iteration_count(ic) == ic + 1

\* line 547: the index enumerate gives the query after the one at index i
MutSkipsAQuery(i) == i + 2

next_query_index(i) == i + 1

\* lines 598-600: the index the for loop goes on with after a failed query
MutBreakOnFailure(i, n) == n

continue_after_failure(i, n) == i + 1

\* the running total recorded instead of the pass's own count
MutCountsAllGathered(isrc, gathered) == Len(gathered)

\* line 633: sources_found=len(iteration_sources)
sources_found_of(isrc, gathered) == Len(isrc)

\* lines 630-637
MutNotRecorded(recorded, rec) == recorded

record_iteration(recorded, rec) == Append(recorded, rec)

\* line 685
MutCountAlways(sources, include_citations) == Len(sources)

source_count_of(sources, include_citations) ==
    IF include_citations THEN Len(sources) ELSE 0

\* lines 650-657
BeginFinalize ==
    Yield(emit_event("finalize_answer",
                     [status |-> "generating_final_answer",
                      total_sources |-> Len(sources_gathered),
                      iterations_completed |-> iteration_count]),
          "generating_final_answer")

\* lines 527-542: one more pass of the while loop, over the query set qs
EnterIteration(qs) ==
    /\ iteration_count' = next_iteration_count(iteration_count)
    /\ queries' = qs
    /\ Yield(emit_event("web_research",
                        [status |-> "starting_research",
                         iteration |-> next_iteration_count(iteration_count),
                         query_count |-> Len(qs)]),
             "starting_research")

\* line 526: the while statement, evaluated with the query set qs
WhileLoop(qs) ==
    IF iteration_count < request.max_iterations
    THEN EnterIteration(qs)
    ELSE /\ BeginFinalize
         /\ queries' = qs
         /\ UNCHANGED iteration_count

\* line 547 and lines 602-613: the for statement reaching index i with the
\* iteration's results ir and sources isrc
ForLoop(i, ir, isrc) ==
    /\ iteration_results' = ir
    /\ iteration_sources' = isrc
    /\ IF i < Len(queries)
       THEN /\ qi' = i
            /\ Yield(emit_event("web_research",
                                [status |-> "researching_query",
                                 query |-> queries[i + 1],
                                 query_index |-> i + 1,
                                 total_queries |-> Len(queries)]),
                     "researching_query")
            /\ UNCHANGED <<web_research_results, sources_gathered>>
       ELSE /\ qi' = qi
            /\ web_research_results' = web_research_results \o ir
            /\ sources_gathered' = sources_gathered \o isrc
            /\ Yield(emit_event("reflection",
                                [status |-> "analyzing_results",
                                 gathered |-> Len(sources_gathered) + Len(isrc),
                                 iteration |-> iteration_count]),
                     "analyzing_results")

\* lines 677-719
Complete(final_answer) ==
    LET research_completeness == calculate_research_completeness(sources_gathered)
        final_sources == IF request.include_citations
                         THEN prepare_citations(sources_gathered) ELSE <<>>
        source_count == source_count_of(sources_gathered, request.include_citations)
        resp == [query |-> request.query,
                 final_answer |-> final_answer,
                 total_iterations |-> iteration_count,
                 search_iterations |-> iterations,
                 sources |-> final_sources,
                 source_count |-> source_count,
                 research_completeness |-> research_completeness,
                 debug_info |->
                    IF all_search_queries # <<>> \/ all_grounding_supports # <<>>
                    THEN [search_queries_used |-> Range(all_search_queries),
                          grounding_supports |-> all_grounding_supports,
                          total_grounded_segments |-> Len(all_grounding_supports)]
                    ELSE None]
    IN  /\ response' = resp
        /\ Yield(emit_event("finalize_answer",
                            [status |-> "completed",
                             final_answer |-> final_answer,
                             total_sources |-> Len(sources_gathered),
                             research_completeness |-> research_completeness,
                             iterations_completed |-> iteration_count,
                             response_dump |-> resp]),
                 "completed")

\* only the last chunk kept
MutKeepsLastPart(parts) == IF parts = <<>> THEN <<>> ELSE parts[Len(parts)]

\* line 675: "".join(final_answer_parts)
join_parts(parts) == Flatten(parts)

\* str.replace: every occurrence of pat, left to right, becomes rep
RECURSIVE ReplaceAll(_, _, _)
ReplaceAll(text, pat, rep) ==
    IF Len(text) < Len(pat) \/ pat = <<>> THEN text
    ELSE IF SubSeq(text, 1, Len(pat)) = pat
         THEN rep \o ReplaceAll(SubSeq(text, Len(pat) + 1, Len(text)), pat, rep)
         ELSE <<Head(text)>> \o ReplaceAll(Tail(text), pat, rep)

\* the literal "[source title](url)" of a source
Placeholder(source) == <<"[source title]", "(">> \o source.url \o <<")">>

\* lines 871-877: the placeholder of every source with a url, in list order,
\* replaced by "[title](url)"
RECURSIVE replace_placeholders(_, _)
replace_placeholders(final_answer, sources) ==
    IF sources = <<>> THEN final_answer
    ELSE LET source == Head(sources)
             replaced ==
                 IF source.url # <<>>
                 THEN ReplaceAll(final_answer, Placeholder(source),
                                 <<"[", source.title, "]", "(">> \o source.url \o <<")">>)
                 ELSE final_answer
         IN  replace_placeholders(replaced, Tail(sources))

RECURSIVE DropEmpty(_)
DropEmpty(chunks) ==
    IF chunks # <<>> /\ Head(chunks) = <<>> THEN DropEmpty(Tail(chunks)) ELSE chunks

\* _finalize_answer_streaming, lines 835-889, run to its next yield or to its
\* end, and the loop around it, lines 667-675
StreamStep(chunks, fails, parts) ==
    LET rest == DropEmpty(chunks)
    IN  IF rest # <<>>
        THEN /\ final_answer_parts' = Append(parts, Head(rest))
             /\ synth' = [mode |-> "streaming", chunks |-> Tail(rest), fails |-> fails]
             /\ Yield(emit_event("answer_chunk",
                                 [chunk |-> Head(rest), status |-> "streaming"]),
                      "answer_chunk")
             /\ UNCHANGED response
        ELSE IF fails
        THEN LET fb == fallback_answer(request.query, sources_gathered)
             IN  /\ final_answer_parts' = Append(parts, fb)
                 /\ synth' = [mode |-> "fallback_sent"]
                 /\ Yield(emit_event("answer_chunk",
                                     [chunk |-> fb, status |-> "streaming"]),
                          "answer_chunk")
                 /\ UNCHANGED response
        ELSE \* lines 870-877 build a local final_answer that is not yielded
             /\ final_answer_parts' = parts
             /\ synth' = [mode |-> "ended",
                          final_answer |->
                             replace_placeholders(Flatten(parts), sources_gathered)]
             /\ Complete(join_parts(parts))

Accumulators ==
    <<iteration_results, iteration_sources, web_research_results, sources_gathered,
      iterations, all_search_queries, all_grounding_supports,
      texts_with_citations>>

Finalization == <<synth, final_answer_parts, response>>

Called == <<entry, request, gemini_api_key, sync_result, cite, score, consumer, parked>>

Fixed == <<Called, reflected>>

\* lines 474-511: the first resumption
Start ==
    /\ entry = "stream"
    /\ pc = "start"
    /\ IF ~validate_gemini_api_key(gemini_api_key)
       THEN Yield(emit_event("error",
                             [error |-> "GEMINI_API_KEY required for agentic search"]),
                  after_credential_error)
       ELSE Yield(emit_event("generate_query",
                             [status |-> "generating_queries",
                              query_count |->
                                depth_configs[request.search_depth].number_of_initial_queries]),
                  "generating_queries")
    /\ UNCHANGED <<iteration_count, queries, qi, Accumulators, reflection_result,
                   Finalization, calls, research_log, fault, Fixed>>

\* lines 513-524
GeneratingQueries(outcomes) ==
    /\ pc = "generating_queries"
    /\ \E outcome \in outcomes :
         LET qs == generate_queries(
                     request.query,
                     depth_configs[request.search_depth].number_of_initial_queries,
                     gemini_api_key, outcome)
         IN  /\ queries' = qs
             /\ calls' = IF gemini_api_key THEN Append(calls, "generate_queries")
                         ELSE calls
             /\ Yield(emit_event("generate_query",
                                 [status |-> "queries_generated",
                                  search_query |-> qs,
                                  query_count |-> Len(qs)]),
                      "queries_generated")
    /\ UNCHANGED <<iteration_count, qi, Accumulators, reflection_result,
                   Finalization, research_log, fault, Fixed>>

ResumeGeneratingQueries == GeneratingQueries(GenerateOutcomes)

\* lines 526-542, entered from the yield at 517
ResumeQueriesGenerated ==
    /\ pc = "queries_generated"
    /\ WhileLoop(queries)
    /\ UNCHANGED <<qi, Accumulators, reflection_result, Finalization, calls,
                   research_log, fault, Fixed>>

\* lines 544-557
ResumeStartingResearch ==
    /\ pc = "starting_research"
    /\ ForLoop(0, <<>>, <<>>)
    /\ UNCHANGED <<iteration_count, queries, iterations, all_search_queries,
                   all_grounding_supports, texts_with_citations, reflection_result,
                   Finalization, calls, research_log, fault, Fixed>>

\* lines 559-600
ResumeResearchingQuery ==
    /\ pc = "researching_query"
    /\ Len(research_log) < MaxResearchCalls
    /\ \E outcome \in ResearchOutcomes :
         LET research_result == web_research(gemini_api_key, outcome)
         IN  /\ calls' = IF gemini_api_key THEN Append(calls, "web_research")
                         ELSE calls
             /\ research_log' = Append(research_log,
                                       [iteration |-> iteration_count,
                                        index |-> qi,
                                        result |-> research_result])
             /\ IF research_result.ok
                THEN /\ iteration_results' =
                            Append(iteration_results, research_result.summary)
                     /\ iteration_sources' =
                            iteration_sources \o research_result.sources
                     /\ all_search_queries' =
                            all_search_queries \o research_result.search_queries
                     /\ all_grounding_supports' =
                            all_grounding_supports \o research_result.grounding_supports
                     /\ texts_with_citations' =
                            IF research_result.text_with_citations # <<>>
                            THEN Append(texts_with_citations,
                                        research_result.text_with_citations)
                            ELSE texts_with_citations
                     /\ Yield(emit_event("web_research",
                                         [status |-> "query_completed",
                                          sources_found |-> Len(research_result.sources),
                                          gathered |-> iteration_sources']),
                              "query_completed")
                     /\ UNCHANGED <<qi, web_research_results, sources_gathered>>
                ELSE /\ ForLoop(continue_after_failure(qi, Len(queries)),
                                iteration_results, iteration_sources)
                     /\ UNCHANGED <<all_search_queries, all_grounding_supports,
                                    texts_with_citations>>
    /\ UNCHANGED <<iteration_count, queries, iterations, reflection_result,
                   Finalization, fault, Fixed>>

\* line 547, entered from the yield at 589
ResumeQueryCompleted ==
    /\ pc = "query_completed"
    /\ ForLoop(next_query_index(qi), iteration_results, iteration_sources)
    /\ UNCHANGED <<iteration_count, queries, iterations, all_search_queries,
                   all_grounding_supports, texts_with_citations, reflection_result,
                   Finalization, calls, research_log, fault, Fixed>>

\* lines 615-628
AnalyzingResults(outcomes) ==
    /\ pc = "analyzing_results"
    /\ \E outcome \in outcomes :
         /\ (outcome.ok /\ ~outcome.is_sufficient
                        /\ iteration_count < request.max_iterations) =>
              Len(Take(outcome.follow_up_queries, FOLLOW_UP_SLICE))
                 <= MaxResearchCalls - Len(research_log)
         /\ LET r == reflection(request.query, iteration_results, iteration_count,
                                outcome)
            IN  /\ reflection_result' = r
                /\ reflected' = iteration_results
                /\ calls' = Append(calls, "reflection")
                /\ Yield(emit_event("reflection",
                                    [status |-> "reflection_completed",
                                     is_sufficient |-> r.is_sufficient,
                                     knowledge_gap |-> r.knowledge_gap,
                                     follow_up_queries |-> r.follow_up_queries,
                                     iteration |-> iteration_count]),
                         "reflection_completed")
    /\ UNCHANGED <<iteration_count, queries, qi, Accumulators, Finalization,
                   research_log, fault, Called>>

ResumeAnalyzingResults == AnalyzingResults(ReflectionOutcomes)

\* lines 630-657
ResumeReflectionCompleted ==
    /\ pc = "reflection_completed"
    /\ iterations' =
          record_iteration(iterations,
                 [iteration_number |-> iteration_count,
                  queries_generated |-> queries,
                  sources_found |-> sources_found_of(iteration_sources, sources_gathered),
                  knowledge_gap_identified |-> reflection_result.knowledge_gap])
    /\ IF reflection_result.is_sufficient
          \/ iteration_count >= request.max_iterations
       THEN /\ BeginFinalize
            /\ UNCHANGED <<iteration_count, queries>>
       ELSE LET qs == Take(reflection_result.follow_up_queries, FOLLOW_UP_SLICE)
            IN  IF qs = <<>>
                THEN /\ BeginFinalize
                     /\ queries' = qs
                     /\ UNCHANGED iteration_count
                ELSE WhileLoop(qs)
    /\ UNCHANGED <<qi, iteration_results, iteration_sources, web_research_results,
                   sources_gathered, all_search_queries, all_grounding_supports,
                   texts_with_citations, reflection_result, Finalization, calls,
                   research_log, fault, Fixed>>

\* lines 659-673, to the first answer_chunk (or past an empty stream)
GeneratingFinalAnswer(outcomes) ==
    /\ pc = "generating_final_answer"
    /\ IF Len(texts_with_citations) = 1
       THEN /\ final_answer_parts' = <<texts_with_citations[1]>>
            /\ synth' = [mode |-> "direct"]
            /\ Yield(emit_event("answer_chunk",
                                [chunk |-> texts_with_citations[1],
                                 status |-> "streaming"]),
                     "answer_chunk")
            /\ UNCHANGED <<response, calls>>
       ELSE \E outcome \in outcomes :
              /\ calls' = Append(calls, "synthesis")
              /\ StreamStep(outcome.chunks, outcome.fails, <<>>)
    /\ UNCHANGED <<iteration_count, queries, qi, Accumulators, reflection_result,
                   research_log, fault, Fixed>>

ResumeGeneratingFinalAnswer == GeneratingFinalAnswer(SynthesisOutcomes)

\* lines 661-675 and 667-719, entered from an answer_chunk yield
ResumeAnswerChunk ==
    /\ pc = "answer_chunk"
    /\ IF synth.mode = "direct"
       THEN /\ Complete(texts_with_citations[1])
            /\ UNCHANGED <<synth, final_answer_parts>>
       ELSE IF synth.mode = "streaming"
       THEN StreamStep(synth.chunks, synth.fails, final_answer_parts)
       ELSE /\ Complete(join_parts(final_answer_parts))
            /\ synth' = [mode |-> "ended"]
            /\ UNCHANGED final_answer_parts
    /\ UNCHANGED <<iteration_count, queries, qi, Accumulators, reflection_result,
                   calls, research_log, fault, Fixed>>

\* lines 721-723: an exception that no inner handler catches is raised while the
\* generator runs on from a yield inside the try statement of line 500
TryPoints ==
    {"generating_queries", "queries_generated", "starting_research",
     "researching_query", "query_completed", "analyzing_results",
     "reflection_completed", "generating_final_answer", "answer_chunk"}

RaiseInTry ==
    /\ pc \in TryPoints
    /\ fault' = TRUE
    /\ Yield(emit_event("error", [error |-> "exception"]), "error")
    /\ UNCHANGED <<iteration_count, queries, qi, Accumulators, reflection_result,
                   Finalization, calls, research_log, Fixed>>

\* the resumption after the terminal yield (line 494, 708 or 723): the generator ends
Exhaust ==
    /\ pc \in {"completed", "error"}
    /\ pc' = "done"
    /\ UNCHANGED <<iteration_count, queries, qi, Accumulators, reflection_result,
                   Finalization, events, calls, research_log, fault, Fixed>>

----------------------------------------------------------------------------
(* execute_agentic_search, lines 406-446 *)

\* the names locals() holds at line 425
LocalsAtCall ==
    {"self", "query", "agent_type", "max_iterations", "include_citations",
     "search_depth", "custom_instructions", "user_id", "start_time",
     "final_response"}

\* self.execute_agentic_search_stream(**kw): the bound method already has self,
\* line 468
BindStreamCall(kw) == IF "self" \in kw THEN "TypeError" ELSE "bound"

execute_agentic_search ==
    /\ entry = "sync"
    /\ pc = "start"
    /\ sync_result' =
          IF ~validate_gemini_api_key(gemini_api_key)
          THEN [outcome |-> "raised", error |-> "ValueError"]
          ELSE IF BindStreamCall(LocalsAtCall) = "TypeError"
          THEN [outcome |-> "raised", error |-> "TypeError"]
          ELSE [outcome |-> "draining"]
    /\ pc' = "done"
    /\ UNCHANGED <<entry, request, gemini_api_key, cite, score, consumer, parked,
                   reflected, iteration_count,
                   queries, qi, Accumulators, reflection_result, Finalization,
                   events, calls, research_log, fault>>

----------------------------------------------------------------------------

Next ==
    \/ Start
    \/ ResumeGeneratingQueries
    \/ ResumeQueriesGenerated
    \/ ResumeStartingResearch
    \/ ResumeResearchingQuery
    \/ ResumeQueryCompleted
    \/ ResumeAnalyzingResults
    \/ ResumeReflectionCompleted
    \/ ResumeGeneratingFinalAnswer
    \/ ResumeAnswerChunk
    \/ Exhaust
    \/ execute_agentic_search

Spec == Init /\ [][Next]_vars

\* every max_iterations, the other request fields at their defaults
InitLive ==
    /\ entry \in {"stream", "sync"}
    /\ request \in {r \in Requests : r.search_depth = "standard"
                                     /\ r.include_citations}
    /\ gemini_api_key \in BOOLEAN
    /\ cite = None
    /\ score = None
    /\ parked = None
    /\ InitRun

\* every provider call returns and the consumer keeps pulling
SpecLive == InitLive /\ [][Next]_vars /\ WF_vars(Next)

\* the same run with exceptions that no inner handler catches
InitFault ==
    /\ entry = "stream"
    /\ request \in {r \in Requests : r.max_iterations = MAX_ITERATIONS_DEFAULT}
    /\ gemini_api_key \in BOOLEAN
    /\ cite = None
    /\ score = None
    /\ parked = None
    /\ InitRun

NextFault ==
    \/ Start
    \/ ResumeGeneratingQueries
    \/ ResumeQueriesGenerated
    \/ ResumeStartingResearch
    \/ ResumeResearchingQuery
    \/ ResumeQueryCompleted
    \/ ResumeAnalyzingResults
    \/ ResumeReflectionCompleted
    \/ ResumeGeneratingFinalAnswer
    \/ ResumeAnswerChunk
    \/ RaiseInTry
    \/ Exhaust

SpecFault == InitFault /\ [][NextFault]_vars

----------------------------------------------------------------------------
(* The stream under a consumer that may stop pulling: the generator body runs
   only inside __anext__, called by the async for loop of router.py line 84 (or
   of line 425), and a closed generator is not resumed *)

\* the generator runs although nobody pulls
MutRunsUnpulled(c) == TRUE

consumer_pulls(c) == c = "pulling"

InitPull ==
    /\ entry = "stream"
    /\ request \in {r \in Requests : r.search_depth = "standard"
                                     /\ r.include_citations}
    /\ gemini_api_key \in BOOLEAN
    /\ cite = None
    /\ score = None
    /\ parked = None
    /\ InitRun

\* the client disconnects, or the loop of line 425 breaks
StopPulling ==
    /\ entry = "stream"
    /\ consumer = "pulling"
    /\ pc # "done"
    /\ consumer' = "stopped"
    /\ UNCHANGED <<entry, request, gemini_api_key, sync_result, cite, score, parked,
                   reflected, pc,
                   iteration_count, queries, qi, Accumulators, reflection_result,
                   Finalization, events, calls, research_log, fault>>

Resumption ==
    \/ Start
    \/ ResumeGeneratingQueries
    \/ ResumeQueriesGenerated
    \/ ResumeStartingResearch
    \/ ResumeResearchingQuery
    \/ ResumeQueryCompleted
    \/ ResumeAnalyzingResults
    \/ ResumeReflectionCompleted
    \/ ResumeGeneratingFinalAnswer
    \/ ResumeAnswerChunk
    \/ Exhaust

NextPull ==
    \/ /\ consumer_pulls(consumer)
       /\ Resumption
    \/ StopPulling

SpecPull == InitPull /\ [][NextPull]_vars

----------------------------------------------------------------------------
(* Two runs whose resumptions interleave: two requests, each with its own
   AgenticSearchService (router.py line 81) and its own generator frame *)

\* the locals of one generator frame
Frame ==
    <<pc, iteration_count, queries, qi, iteration_results, iteration_sources,
      web_research_results, sources_gathered, iterations, all_search_queries,
      all_grounding_supports, texts_with_citations, reflection_result, synth,
      final_answer_parts, response, events, calls, research_log, fault, reflected>>

InitialFrame ==
    <<"start", 0, <<>>, 0, <<>>, <<>>, <<>>, <<>>, <<>>, <<>>, <<>>, <<>>, None,
      None, <<>>, None, <<>>, <<>>, <<>>, FALSE, <<>>>>

\* the lists would be one object shared by both runs
MutSharedLists(own, suspended) == suspended

\* lines 483-488: the lists are created by each call, so a resumed run finds
\* its own and not those of the run suspended meanwhile
frame_local(own, suspended) == own

InitTwo ==
    /\ entry = "stream"
    /\ request \in {r \in Requests : r.max_iterations = MAX_ITERATIONS_GE}
    /\ gemini_api_key = TRUE
    /\ cite = None
    /\ score = None
    /\ InitRun
    /\ parked = InitialFrame

\* the event loop suspends the running generator at its yield and resumes the other
SwitchRun ==
    /\ parked # None
    /\ parked' = Frame
    /\ pc' = parked[1]
    /\ iteration_count' = parked[2]
    /\ queries' = parked[3]
    /\ qi' = parked[4]
    /\ iteration_results' = parked[5]
    /\ iteration_sources' = parked[6]
    /\ web_research_results' = frame_local(parked[7], web_research_results)
    /\ sources_gathered' = frame_local(parked[8], sources_gathered)
    /\ iterations' = frame_local(parked[9], iterations)
    /\ all_search_queries' = frame_local(parked[10], all_search_queries)
    /\ all_grounding_supports' = frame_local(parked[11], all_grounding_supports)
    /\ texts_with_citations' = frame_local(parked[12], texts_with_citations)
    /\ reflection_result' = parked[13]
    /\ synth' = parked[14]
    /\ final_answer_parts' = parked[15]
    /\ response' = parked[16]
    /\ events' = parked[17]
    /\ calls' = parked[18]
    /\ research_log' = parked[19]
    /\ fault' = parked[20]
    /\ reflected' = parked[21]
    /\ UNCHANGED <<entry, request, gemini_api_key, sync_result, cite, score, consumer>>

NextTwo ==
    \/ /\ Resumption
       /\ Len(research_log') <= MaxTwoRunCalls
    \/ SwitchRun

SpecTwo == InitTwo /\ [][NextTwo]_vars

----------------------------------------------------------------------------
(* One call of _reflection whose provider call fails, lines 794-833 *)

SummaryList(n) == [k \in 1..n |-> <<"p">>]

InitReflect ==
    /\ entry = "reflect"
    /\ request \in {r \in Requests : r.search_depth = "standard"
                                     /\ r.include_citations}
    /\ gemini_api_key = TRUE
    /\ cite = None
    /\ score = None
    /\ parked = None
    /\ pc = "analyzing_results"
    /\ iteration_count \in MAX_ITERATIONS_GE..MAX_ITERATIONS_LE
    /\ \E n \in 0..MaxSummaries : iteration_results = SummaryList(n)
    /\ queries = <<>>
    /\ qi = 0
    /\ iteration_sources = <<>>
    /\ web_research_results = <<>>
    /\ sources_gathered = <<>>
    /\ iterations = <<>>
    /\ all_search_queries = <<>>
    /\ all_grounding_supports = <<>>
    /\ texts_with_citations = <<>>
    /\ reflection_result = None
    /\ synth = None
    /\ final_answer_parts = <<>>
    /\ response = None
    /\ events = <<>>
    /\ calls = <<>>
    /\ research_log = <<>>
    /\ fault = FALSE
    /\ sync_result = None
    /\ consumer = "pulling"
    /\ reflected = <<>>

ApplyFailedReflection ==
    /\ entry = "reflect"
    /\ pc = "analyzing_results"
    /\ reflection_result' =
          reflection(request.query, iteration_results, iteration_count, Failure)
    /\ reflected' = iteration_results
    /\ calls' = Append(calls, "reflection")
    /\ pc' = "done"
    /\ UNCHANGED <<iteration_count, queries, qi, Accumulators, Finalization, events,
                   research_log, fault, Called>>

NextReflect == ApplyFailedReflection

SpecReflect == InitReflect /\ [][NextReflect]_vars

----------------------------------------------------------------------------
(* The stream when the provider call of _generate_queries fails, lines 753-755 *)

InitGenFail ==
    /\ entry = "stream"
    /\ request \in Requests
    /\ gemini_api_key = TRUE
    /\ cite = None
    /\ score = None
    /\ parked = None
    /\ InitRun

ResumeGeneratingQueriesFails == GeneratingQueries({Failure})

NextGenFail ==
    \/ Start
    \/ ResumeGeneratingQueriesFails
    \/ ResumeQueriesGenerated
    \/ ResumeStartingResearch
    \/ ResumeResearchingQuery
    \/ ResumeQueryCompleted
    \/ ResumeAnalyzingResults
    \/ ResumeReflectionCompleted
    \/ ResumeGeneratingFinalAnswer
    \/ ResumeAnswerChunk
    \/ Exhaust

SpecGenFail == InitGenFail /\ [][NextGenFail]_vars

----------------------------------------------------------------------------
(* One call of _add_inline_citations on arbitrary inputs *)

TextOfLen(n) == [k \in 1..n |-> "c" \o ToString(k)]

TextSymbols == {"c" \o ToString(k) : k \in 1..(MaxTextLen + 1)}

CiteSource(u) ==
    [title |-> "T", url |-> u, snippet |-> "n", chunk_index |-> 0,
     supported_segments_count |-> 0, supported_segments |-> <<>>]

CiteSourceLists ==
    {<<>>, <<CiteSource(<<"https://", "s1">>), CiteSource(<<>>)>>}

\* end_index runs past the end of the text; source index 2 names no source
CiteSupports ==
    [text : {<<>>}, start_index : {0}, end_index : 0..(MaxTextLen + 1),
     source_indices : {<<>>, <<0>>, <<1>>, <<0, 1>>, <<2>>}]

SeqsUpTo(S, n) == UNION {[1..k -> S] : k \in 0..n}

InitCite ==
    /\ entry = "cite"
    /\ request \in {r \in Requests : r.max_iterations = MAX_ITERATIONS_DEFAULT
                                     /\ r.search_depth = "standard"
                                     /\ r.include_citations}
    /\ gemini_api_key = TRUE
    /\ \E n \in 0..MaxTextLen, sup \in SeqsUpTo(CiteSupports, MaxSupports),
          src \in CiteSourceLists :
         cite = [text |-> TextOfLen(n), supports |-> sup, sources |-> src,
                 out |-> <<>>, done |-> FALSE]
    /\ score = None
    /\ parked = None
    /\ InitRun

ApplyCitations ==
    /\ entry = "cite"
    /\ pc = "start"
    /\ cite' = [cite EXCEPT
                  !.out = add_inline_citations(cite.text, cite.supports, cite.sources),
                  !.done = TRUE]
    /\ pc' = "done"
    /\ UNCHANGED <<entry, request, gemini_api_key, sync_result, score, consumer, parked, reflected,
                   iteration_count, queries, qi, Accumulators, reflection_result,
                   Finalization, events, calls, research_log, fault>>

NextCite == ApplyCitations

SpecCite == InitCite /\ [][NextCite]_vars

----------------------------------------------------------------------------
(* Calls of _calculate_research_completeness on two source lists *)

SourceList(n) == [k \in 1..n |-> CiteSource(<<>>)]

InitScore ==
    /\ entry = "score"
    /\ request \in {r \in Requests : r.max_iterations = MAX_ITERATIONS_DEFAULT
                                     /\ r.search_depth = "standard"
                                     /\ r.include_citations}
    /\ gemini_api_key = TRUE
    /\ cite = None
    /\ \E n, m \in 0..MaxSources :
          score = [n |-> n, m |-> m, of_n |-> 0, of_m |-> 0, done |-> FALSE]
    /\ parked = None
    /\ InitRun

ApplyCompleteness ==
    /\ entry = "score"
    /\ pc = "start"
    /\ score' = [score EXCEPT
                   !.of_n = calculate_research_completeness(SourceList(score.n)),
                   !.of_m = calculate_research_completeness(SourceList(score.m)),
                   !.done = TRUE]
    /\ pc' = "done"
    /\ UNCHANGED <<entry, request, gemini_api_key, sync_result, cite, consumer, parked, reflected,
                   iteration_count, queries, qi, Accumulators, reflection_result,
                   Finalization, events, calls, research_log, fault>>

NextScore == ApplyCompleteness

SpecScore == InitScore /\ [][NextScore]_vars

----------------------------------------------------------------------------
(* Vocabulary of the properties *)

IsCompleted(e) == e.type = "finalize_answer" /\ e.data.status = "completed"

IsTerminal(e) == e.type = "error" \/ IsCompleted(e)

HasStatus(e, type, status) == e.type = type /\ e.type # "error" /\ e.data.status = status

CompletedEvents == {k \in DOMAIN events : IsCompleted(events[k])}

LastEvent == events[Len(events)]

StreamEnded == entry = "stream" /\ pc = "done"

\* the _web_research calls that returned a result, in call order
Successful == SelectSeq(research_log, LAMBDA c : c.result.ok)

SummariesOf(log) == [k \in DOMAIN log |-> log[k].result.summary]

SourcesOf(log) == Flatten([k \in DOMAIN log |-> log[k].result.sources])

CallsOfIteration(n) == SelectSeq(research_log, LAMBDA c : c.iteration = n)

----------------------------------------------------------------------------
\* C1: in every run that reaches finalize_answer/completed the number of recorded
\* search_iterations equals total_iterations, which is the number of research
\* passes started, and 1 <= total_iterations <= max_iterations <= 5.
C1_IterationsRecordedAndBounded ==
    \A k \in CompletedEvents :
        LET r == events[k].data.response_dump
        IN  /\ Len(r.search_iterations) = r.total_iterations
            /\ r.total_iterations =
                  Cardinality({j \in DOMAIN events :
                                 HasStatus(events[j], "web_research", "starting_research")})
            /\ 1 <= r.total_iterations
            /\ r.total_iterations <= request.max_iterations
            /\ request.max_iterations <= MAX_ITERATIONS_LE

C1_Witness ==
    \E k \in CompletedEvents :
        /\ events[k].data.response_dump.total_iterations = MAX_ITERATIONS_LE
        /\ \E c \in Range(research_log) : ~c.result.ok

\* C2: no run starts more research passes than the max_iterations of the depth
\* profile its search_depth selects; a quick request with the other fields at
\* their defaults runs exactly one pass and ends with finalize_answer/completed.
C2_DepthProfileBoundsIterations ==
    /\ \A j \in DOMAIN events :
          HasStatus(events[j], "web_research", "starting_research")
             => events[j].data.iteration
                   <= depth_configs[request.search_depth].max_iterations
    /\ \A k \in CompletedEvents :
          (request.search_depth = "quick"
           /\ request.max_iterations = MAX_ITERATIONS_DEFAULT)
             => events[k].data.response_dump.total_iterations = 1

\* C3: without a credential the stream is exactly one error event and then ends,
\* and no provider call is issued.
C3_NoCredentialSingleErrorEvent ==
    (entry = "stream" /\ ~gemini_api_key)
       => /\ calls = <<>>
          /\ pc \in {"start", "error", "done"}
          /\ Len(events) = (IF pc = "start" THEN 0 ELSE 1)
          /\ \A k \in DOMAIN events : events[k].type = "error"

C3_Witness ==
    StreamEnded /\ ~gemini_api_key /\ Len(events) = 1 /\ events[1].type = "error"

\* C4: a failed web research call aborts nothing: every query of the pass is
\* still researched, in list order, before reflection; the run ends with
\* finalize_answer/completed, never with an error event; and the accumulated
\* summaries and sources, and the sources of the response, are those of the
\* successful calls, in call order.
C4_FailedQueryIsSkipped ==
    /\ pc \in {"analyzing_results", "reflection_completed"}
          => [k \in DOMAIN CallsOfIteration(iteration_count) |->
                 CallsOfIteration(iteration_count)[k].index]
             = [k \in 1..Len(queries) |-> k - 1]
    /\ (entry = "stream" /\ gemini_api_key)
          => \A k \in DOMAIN events : events[k].type # "error"
    /\ (StreamEnded /\ gemini_api_key) => IsCompleted(LastEvent)
    /\ \A k \in CompletedEvents :
          /\ web_research_results = SummariesOf(Successful)
          /\ sources_gathered = SourcesOf(Successful)
          /\ request.include_citations
                => events[k].data.response_dump.sources
                      = prepare_citations(SourcesOf(Successful))

C4_Witness ==
    /\ StreamEnded
    /\ IsCompleted(LastEvent)
    /\ LastEvent.data.response_dump.sources # <<>>
    /\ \E i, j \in DOMAIN research_log :
          /\ i < j
          /\ research_log[i].iteration = research_log[j].iteration
          /\ ~research_log[i].result.ok
          /\ research_log[j].result.ok

\* C5: with a credential, execute_agentic_search returns the response that the
\* terminal finalize_answer/completed event of the stream it drives carries.
C5_SyncReturnsStreamResponse ==
    (entry = "sync" /\ pc = "done" /\ gemini_api_key)
       => /\ sync_result.outcome = "returned"
          /\ response # None
          /\ sync_result.returned = response

\* C6: when the stream ends without a finalize_answer/completed event,
\* execute_agentic_search returns the fallback response and raises nothing.
C6_SyncFallsBack ==
    (entry = "sync" /\ pc = "done" /\ CompletedEvents = {})
       => /\ sync_result.outcome = "returned"
          /\ sync_result.returned = create_fallback_response(request.query)

\* C7: a stream has at most one terminal event (finalize_answer/completed or
\* error), it is the last event, a stream that has ended has one, the completed
\* event carries the response, and once an exception was raised inside the try
\* statement the terminal event is the error event.
C7_OneTerminalEventLast ==
    /\ \A k \in DOMAIN events : IsTerminal(events[k]) => k = Len(events)
    /\ StreamEnded => (events # <<>> /\ IsTerminal(LastEvent))
    /\ \A k \in CompletedEvents :
          response # None /\ events[k].data.response_dump = response
    /\ fault => (pc \in {"error", "done"} /\ LastEvent.type = "error"
                 /\ CompletedEvents = {})

C7_Witness ==
    /\ StreamEnded
    /\ fault
    /\ LastEvent.type = "error"
    /\ \E k \in DOMAIN events : events[k].type = "answer_chunk"

\* C8: when every provider call returns and the consumer keeps pulling, every
\* run ends, and a stream ends on its terminal event; the iteration count never
\* exceeds max_iterations, every pass after the first has a non-empty query
\* list, and every pass started adds one to the iteration count.
C8_RunTerminates ==
    /\ <>(pc = "done" /\ (entry = "stream" => IsTerminal(LastEvent)))
    /\ [](iteration_count <= request.max_iterations)
    /\ []((iteration_count >= 2 /\ pc = "starting_research") => queries # <<>>)
    /\ [][pc' = "starting_research" => iteration_count' = iteration_count + 1]_vars

C8_Witness ==
    /\ StreamEnded
    /\ request.max_iterations = MAX_ITERATIONS_LE
    /\ iteration_count = request.max_iterations
    /\ ~reflection_result.is_sufficient
    /\ reflection_result.follow_up_queries # <<>>

\* C10: the response's source_count is the number of sources gathered by the
\* successful research calls and sources has that many entries when
\* include_citations is true; source_count is 0 and sources is empty when it is
\* false.
C10_SourceCountMatches ==
    \A k \in CompletedEvents :
        LET r == events[k].data.response_dump
        IN  IF request.include_citations
            THEN /\ r.source_count = Len(sources_gathered)
                 /\ r.source_count = Len(SourcesOf(Successful))
                 /\ Len(r.sources) = r.source_count
            ELSE /\ r.source_count = 0
                 /\ r.sources = <<>>

C10_Witness ==
    \E k \in CompletedEvents :
        /\ ~request.include_citations
        /\ sources_gathered # <<>>
        /\ events[k].data.response_dump.source_count = 0

----------------------------------------------------------------------------
(* Vocabulary of the citation properties *)

CiteMarker(k) == CitationString(cite.supports[k], cite.sources)

\* support k inserted its marker string, lines 342 and 356-382
CiteProduced(k) ==
    /\ cite.text # <<>>
    /\ cite.supports[k].source_indices # <<>>
    /\ cite.supports[k].end_index <= Len(cite.text)
    /\ CiteMarker(k) # <<>>

RECURSIVE MarkerLenSum(_)
MarkerLenSum(supports) ==
    IF supports = {} THEN 0
    ELSE LET k == CHOOSE j \in supports : TRUE
         IN  Len(CiteMarker(k)) + MarkerLenSum(supports \ {k})

ProducedSupports == {j \in DOMAIN cite.supports : CiteProduced(j)}

\* length of the marker strings inserted at smaller offsets than support k's
MarkersBelow(k) ==
    MarkerLenSum({j \in ProducedSupports :
                    cite.supports[j].end_index < cite.supports[k].end_index})

\* length of the marker strings of later supports with support k's offset
MarkersSameOffsetLater(k) ==
    MarkerLenSum({j \in ProducedSupports :
                    j > k /\ cite.supports[j].end_index = cite.supports[k].end_index})

MarkerAt(k, start) ==
    /\ start + Len(CiteMarker(k)) <= Len(cite.out)
    /\ SubSeq(cite.out, start + 1, start + Len(CiteMarker(k))) = CiteMarker(k)

\* the output is the text with only the produced marker strings added
OnlyInsertions ==
    /\ SelectSeq(cite.out, LAMBDA x : x \in TextSymbols) = cite.text
    /\ Len(cite.out) = Len(cite.text)
                       + MarkerLenSum(ProducedSupports)

\* the original character at offset end_index-1 is where it would be if only
\* the markers of smaller offsets had been inserted
GapStartsAfterCharacter(k) ==
    LET e == cite.supports[k].end_index
    IN  e >= 1 => cite.out[e + MarkersBelow(k)] = cite.text[e]

----------------------------------------------------------------------------
\* C11: in tenths, research_completeness of n sources is n up to 10 sources and
\* 10 from there on: 0 for no source, 10 for 10 and for 20 sources, always within
\* 0..10, and never smaller for more sources.
C11_CompletenessCappedMonotone ==
    score.done =>
        /\ score.of_n \in 0..RESEARCH_COMPLETENESS_DIVISOR
        /\ score.n <= RESEARCH_COMPLETENESS_DIVISOR => score.of_n = score.n
        /\ score.n >= RESEARCH_COMPLETENESS_DIVISOR
              => score.of_n = RESEARCH_COMPLETENESS_DIVISOR
        /\ score.n = 0 => score.of_n = 0
        /\ score.n \in {10, 20} => score.of_n = 10
        /\ score.n <= score.m => score.of_n <= score.of_m

C11_Witness ==
    /\ score.done
    /\ score.n = 10 /\ score.m = 20
    /\ score.of_n = 10 /\ score.of_m = 10

\* C12: the query set of the first research pass has at least one query and at
\* most the number_of_initial_queries of the depth profile selected.
C12_InitialQuerySetWithinProfile ==
    (entry = "stream" /\ iteration_count = 1 /\ pc = "starting_research")
       => /\ Len(queries) >= 1
          /\ Len(queries)
                <= depth_configs[request.search_depth].number_of_initial_queries

\* C13: once the consumer has stopped pulling, no provider call is issued and no
\* event is produced any more; no call is issued before the first event was
\* pulled; and one pull issues at most one provider call.
C13_CallsOnlyWhenPulled ==
    /\ [][consumer = "stopped"
            => (calls' = calls /\ research_log' = research_log /\ events' = events
                /\ pc' = pc)]_vars
    /\ [](pc \in {"start", "generating_queries"} => calls = <<>>)
    /\ [][Len(calls') <= Len(calls) + 1]_vars

C13_Witness ==
    /\ consumer = "stopped"
    /\ pc = "researching_query"
    /\ qi = 0
    /\ Len(queries) >= 2
    /\ Len(calls) = 1

\* C14: when the resumptions of two runs interleave, the terminal response of
\* each run holds the summaries, sources, iterations, search queries and
\* grounding supports of that run's own successful research calls and nothing
\* of the other run.
C14_RunsShareNoState ==
    \A k \in CompletedEvents :
        LET r == events[k].data.response_dump
            own == Successful
        IN  /\ web_research_results = SummariesOf(own)
            /\ r.sources = prepare_citations(SourcesOf(own))
            /\ r.source_count = Len(SourcesOf(own))
            /\ r.total_iterations = Len(r.search_iterations)
            /\ \A j \in DOMAIN r.search_iterations :
                  r.search_iterations[j].sources_found
                     = Len(SourcesOf(SelectSeq(own, LAMBDA c : c.iteration = j)))
            /\ all_search_queries
                  = Flatten([j \in DOMAIN own |-> own[j].result.search_queries])
            /\ all_grounding_supports
                  = Flatten([j \in DOMAIN own |-> own[j].result.grounding_supports])
            /\ r.debug_info # None =>
                  /\ r.debug_info.search_queries_used = Range(all_search_queries)
                  /\ r.debug_info.grounding_supports = all_grounding_supports

C14_Witness ==
    /\ parked # None
    /\ CompletedEvents # {}
    /\ sources_gathered # <<>>
    /\ parked[1] = "query_completed"
    /\ parked[6] # <<>>
    /\ Len(parked[17]) < Len(events)

\* C15: after the reflection of a pass the loop stops when is_sufficient holds,
\* when the iteration count has reached max_iterations, or when there is no
\* follow-up query; otherwise the next pass starts on the first three (at most)
\* follow-up queries in order; so every pass after the first researches between
\* one and three queries.
C15_LoopContinuationRule ==
    /\ [][pc = "reflection_completed" =>
            LET f == reflection_result.follow_up_queries
            IN  IF reflection_result.is_sufficient
                   \/ iteration_count >= request.max_iterations
                   \/ f = <<>>
                THEN /\ pc' = "generating_final_answer"
                     /\ iteration_count' = iteration_count
                ELSE /\ pc' = "starting_research"
                     /\ iteration_count' = iteration_count + 1
                     /\ Len(queries') = (IF Len(f) < 3 THEN Len(f) ELSE 3)
                     /\ \A k \in DOMAIN queries' : queries'[k] = f[k]]_vars
    /\ []((pc = "starting_research" /\ iteration_count >= 2)
             => Len(queries) \in 1..3)

C15_Witness ==
    /\ pc = "starting_research"
    /\ iteration_count = 2
    /\ Len(reflection_result.follow_up_queries) > 3
    /\ Len(queries) = 3

\* C16: when its provider call fails, _reflection returns is_sufficient exactly
\* when iteration_count >= 2 or there are at least 3 summaries; with
\* is_sufficient false it proposes the one follow-up query "<topic> additional
\* details", and with is_sufficient true it proposes none.
C16_ReflectionFallback ==
    (entry = "reflect" /\ pc = "done")
       => /\ reflection_result.is_sufficient
                = (iteration_count >= 2 \/ Len(iteration_results) >= 3)
          /\ ~reflection_result.is_sufficient
                => reflection_result.follow_up_queries
                      = <<request.query \o " additional details">>
          /\ reflection_result.is_sufficient
                => reflection_result.follow_up_queries = <<>>

\* C17: the reflection of a pass is given every summary gathered so far, those
\* of the earlier passes included.
C17_ReflectionGetsAllSummaries ==
    (entry = "stream" /\ pc = "reflection_completed")
       => reflected = web_research_results

\* C18: when query generation fails, the generated list is the original topic
\* alone, no error event is emitted, the first pass starts on that one query and
\* researches it, and the run ends with finalize_answer/completed.
C18_GenerationFailureFallsBackToTopic ==
    /\ pc = "queries_generated" =>
          /\ queries = <<request.query>>
          /\ LastEvent.data.search_query = <<request.query>>
    /\ (pc = "starting_research" /\ iteration_count = 1) =>
          /\ queries = <<request.query>>
          /\ LastEvent.data.query_count = 1
    /\ \A k \in DOMAIN events : events[k].type # "error"
    /\ pc \in {"analyzing_results", "done"} =>
          \E k \in DOMAIN events :
              /\ HasStatus(events[k], "web_research", "researching_query")
              /\ events[k].data.query = request.query
              /\ events[k].data.query_index = 1
    /\ pc = "done" => IsCompleted(LastEvent)

C18_Witness ==
    /\ pc = "done"
    /\ IsCompleted(LastEvent)
    /\ calls[1] = "generate_queries"
    /\ research_log # <<>>
    /\ research_log[1].iteration = 1
    /\ research_log[1].result.ok
    /\ queries = <<request.query>>

----------------------------------------------------------------------------
\* the researching_query events of pass n, in stream order
ResearchingEvents(n) ==
    LET starts == {k \in DOMAIN events :
                     HasStatus(events[k], "web_research", "starting_research")
                     /\ events[k].data.iteration = n}
        from == IF starts = {} THEN Len(events) + 1 ELSE CHOOSE k \in starts : TRUE
        upto == IF \E k \in DOMAIN events :
                      k > from /\ events[k].type = "reflection"
                THEN CHOOSE k \in DOMAIN events :
                        /\ k > from /\ events[k].type = "reflection"
                        /\ \A j \in (from + 1)..(k - 1) : events[j].type # "reflection"
                ELSE Len(events) + 1
    IN  SelectSeq(SubSeq(events, from + 1, upto - 1),
                  LAMBDA e : HasStatus(e, "web_research", "researching_query"))

C20_StartThenCompletionEvent ==
    \A k \in DOMAIN events :
        (HasStatus(events[k], "web_research", "researching_query")
         /\ k < Len(events))
           => HasStatus(events[k + 1], "web_research", "query_completed")

----------------------------------------------------------------------------
\* the phase an event belongs to
PhaseOf(e) ==
    IF e.type = "error" THEN "error"
    ELSE IF e.type = "answer_chunk" THEN "answer_chunk"
    ELSE e.data.status

\* event b may come directly after event a in the phase order
FollowsInPhaseOrder(a, b) ==
    LET p == PhaseOf(a)
        q == PhaseOf(b)
    IN  \/ p = "generating_queries" /\ q = "queries_generated"
                                    /\ a.type = "generate_query" /\ b.type = "generate_query"
        \/ p = "queries_generated" /\ q = "starting_research" /\ b.data.iteration = 1
        \/ p = "starting_research" /\ q \in {"researching_query", "analyzing_results"}
        \/ p = "researching_query"
              /\ q \in {"query_completed", "researching_query", "analyzing_results"}
        \/ p = "query_completed" /\ q \in {"researching_query", "analyzing_results"}
        \/ p = "analyzing_results" /\ q = "reflection_completed"
                                   /\ a.type = "reflection" /\ b.type = "reflection"
                                   /\ b.data.iteration = a.data.iteration
        \/ p = "reflection_completed" /\ q = "starting_research"
                                      /\ b.type = "web_research"
                                      /\ b.data.iteration = a.data.iteration + 1
        \/ p = "reflection_completed" /\ q = "generating_final_answer"
                                      /\ b.type = "finalize_answer"
        \/ p = "generating_final_answer" /\ q \in {"answer_chunk", "completed"}
        \/ p = "answer_chunk" /\ q \in {"answer_chunk", "completed"}

\* the iteration a reflection/analyzing_results event at position k belongs to
\* is the one of the last starting_research event before it
StartedBefore(k) ==
    LET starts == {j \in 1..(k - 1) :
                     HasStatus(events[j], "web_research", "starting_research")}
    IN  IF starts = {} THEN 0
        ELSE events[CHOOSE j \in starts : \A i \in starts : i <= j].data.iteration

\* C21: with a credential the stream follows the phase order: the two
\* generate_query events first, then passes numbered 1, 2, ... each made of
\* starting_research, the events of its queries, analyzing_results and
\* reflection_completed, then generating_final_answer, answer_chunk events and
\* completed last; a stream that has ended ends on completed.
C21_PhaseOrder ==
    (entry = "stream" /\ gemini_api_key) =>
        /\ events # <<>> => HasStatus(events[1], "generate_query", "generating_queries")
        /\ \A k \in 1..(Len(events) - 1) : FollowsInPhaseOrder(events[k], events[k + 1])
        /\ \A k \in DOMAIN events :
              HasStatus(events[k], "reflection", "analyzing_results")
                 => events[k].data.iteration = StartedBefore(k)
        /\ \A j, k \in DOMAIN events :
              j < k =>
                 /\ events[j].type = "web_research" => events[k].type # "generate_query"
                 /\ events[j].type = "finalize_answer"
                       => events[k].type \notin {"web_research", "reflection",
                                                  "generate_query"}
        /\ pc = "done" => IsCompleted(LastEvent)

C21_Witness ==
    /\ StreamEnded
    /\ gemini_api_key
    /\ IsCompleted(LastEvent)
    /\ LastEvent.data.iterations_completed = 2
    /\ Cardinality({k \in DOMAIN events : events[k].type = "answer_chunk"}) >= 2
    /\ \E c \in Range(research_log) : ~c.result.ok
    /\ \E c \in Range(research_log) : c.result.ok

----------------------------------------------------------------------------
\* the marker of source index i when every index yields one: linked for a
\* valid index with an http(s) url, bare [i+1] in every other case
MarkerForEveryIndex(i, sources) ==
    IF i < Len(sources) /\ StartsWithHttp(sources[i + 1].url)
    THEN <<"[", ToString(i + 1), "]", "(">> \o sources[i + 1].url \o <<")">>
    ELSE <<"[", ToString(i + 1), "]">>

MarkersForEveryIndex(support, sources) ==
    JoinComma([j \in DOMAIN support.source_indices |->
                 MarkerForEveryIndex(support.source_indices[j], sources)])

\* support k passes the test of line 356 on a non-empty text
CiteApplies(k) ==
    /\ cite.text # <<>>
    /\ cite.supports[k].source_indices # <<>>
    /\ cite.supports[k].end_index <= Len(cite.text)

\* number of markers in the output: each marker opens with one "["
MarkerCount(text) == Len(SelectSeq(text, LAMBDA x : x = "["))

RECURSIVE IndexCount(_)
IndexCount(supports) ==
    IF supports = {} THEN 0
    ELSE LET k == CHOOSE j \in supports : TRUE
         IN  Len(cite.supports[k].source_indices) + IndexCount(supports \ {k})

\* C22: every entry i of a support's source_indices yields exactly one marker
\* numbered i+1, linked when i is a valid index of a source with an http(s)
\* url and bare otherwise (an invalid index included), the markers of one
\* support joined with ", " in source_indices order.
C22_OneMarkerPerSourceIndex ==
    cite.done =>
        /\ MarkerCount(cite.out)
              = IndexCount({k \in DOMAIN cite.supports : CiteApplies(k)})
        /\ \A k \in DOMAIN cite.supports :
              CiteApplies(k) =>
                 CiteMarker(k) = MarkersForEveryIndex(cite.supports[k], cite.sources)

----------------------------------------------------------------------------
(* _extract_sources_from_response on chunk lists with chunks that carry no
   web reference, lines 189-333 *)

MaxChunks == 3

\* the chunk at 0-based position p: a web chunk with a url of its own, or a
\* chunk without web reference
ChunkAt(p, isWeb) ==
    IF isWeb
    THEN [web |-> TRUE, uri |-> <<"https://", "s" \o ToString(p)>>,
          title |-> "T" \o ToString(p), snippet |-> "n"]
    ELSE [web |-> FALSE, uri |-> <<>>, title |-> "", snippet |-> ""]

ChunkLists ==
    {[k \in DOMAIN w |-> ChunkAt(k - 1, w[k])] : w \in SeqsUpTo(BOOLEAN, MaxChunks)}

\* supports of the two-character text whose chunk indices name chunks of the list
ExtractSupports(chunks) ==
    {s \in [text : {<<"a">>}, start_index : {0}, end_index : 1..2,
            grounding_chunk_indices : {<<0>>, <<1>>, <<2>>, <<0, 1>>, <<1, 2>>}] :
        \A i \in Range(s.grounding_chunk_indices) : i < Len(chunks)}

InitExtract ==
    /\ entry = "extract"
    /\ request \in {r \in Requests : r.max_iterations = MAX_ITERATIONS_DEFAULT
                                     /\ r.search_depth = "standard"
                                     /\ r.include_citations}
    /\ gemini_api_key = TRUE
    /\ \E chunks \in ChunkLists :
         \E sup \in SeqsUpTo(ExtractSupports(chunks), MaxSupports) :
            cite = [resp |-> [grounding_metadata |-> TRUE, text |-> <<"a", "b">>,
                              chunks |-> chunks, supports |-> sup,
                              web_search_queries |-> <<>>],
                    result |-> extract_sources_from_response(RespPlain),
                    done |-> FALSE]
    /\ score = None
    /\ parked = None
    /\ InitRun

ApplyExtraction ==
    /\ entry = "extract"
    /\ pc = "start"
    /\ cite' = [cite EXCEPT !.result = extract_sources_from_response(cite.resp),
                            !.done = TRUE]
    /\ pc' = "done"
    /\ UNCHANGED <<entry, request, gemini_api_key, sync_result, score, consumer, parked, reflected,
                   iteration_count, queries, qi, Accumulators, reflection_result,
                   Finalization, events, calls, research_log, fault>>

NextExtract == ApplyExtraction

SpecExtract == InitExtract /\ [][NextExtract]_vars

\* the symbols m occur in the text as one run
Occurs(m, text) ==
    \E start \in 0..(Len(text) - Len(m)) :
        SubSeq(text, start + 1, start + Len(m)) = m

\* the source of the result that was extracted from the chunk at position i
SourceOfChunkIndex(i) ==
    {s \in Range(cite.result.sources) : s.chunk_index = i}

\* C23: a support's source index i denotes the chunk at position i: every
\* source index that names a web chunk is a valid index into the returned
\* source list, and every linked marker [i+1](url) in the text carries the url
\* of the source whose chunk_index is i, chunks without web reference included.
C23_SourceIndexDenotesChunk ==
    cite.done =>
        \A k \in DOMAIN cite.result.grounding_supports :
            \A i \in Range(cite.result.grounding_supports[k].source_indices) :
                /\ cite.resp.chunks[i + 1].web => i < Len(cite.result.sources)
                /\ \A s \in Range(cite.result.sources) :
                      Occurs(<<"[", ToString(i + 1), "]", "(">> \o s.url \o <<")">>,
                             cite.result.text_with_citations)
                         => s \in SourceOfChunkIndex(i)

----------------------------------------------------------------------------
\* the passes of which at least one query produced citation-composed text,
\* lines 579-583
IterationsWithText ==
    {c.iteration : c \in {d \in Range(research_log) :
                            d.result.ok /\ d.result.text_with_citations # <<>>}}

\* the streaming synthesis call of line 667 was issued
SynthesisInvoked == "synthesis" \in Range(calls)

\* C24: the synthesis call is skipped exactly when exactly one pass produced
\* citation-composed text, however many queries of that pass produced text;
\* then that text is streamed as the answer; with two or more such passes, or
\* none, the synthesizer is invoked.
C24_SynthesisSkippedForOneIteration ==
    (entry = "stream" /\ gemini_api_key /\ pc \in {"answer_chunk", "completed", "done"})
       => /\ (~SynthesisInvoked) = (Cardinality(IterationsWithText) = 1)
          /\ ~SynthesisInvoked =>
                \A k \in DOMAIN events :
                    events[k].type = "answer_chunk"
                       => events[k].data.chunk \in Range(texts_with_citations)

----------------------------------------------------------------------------
(* runs whose synthesis stream carries the placeholder of a gathered source *)

\* a synthesis stream citing the first source of RespGrounded by placeholder,
\* in one chunk or split over two
PlaceholderOutcomes ==
    { [chunks |-> << <<"s1">>,
                     <<"[source title]", "(", "https://", "s1", ")">> >>,
       fails |-> FALSE],
      [chunks |-> << <<"[source title]">>, <<"(", "https://", "s1", ")">>,
                     <<"s2">> >>,
       fails |-> FALSE] }

InitSynth ==
    /\ entry = "stream"
    /\ request \in {r \in Requests : r.max_iterations <= MAX_ITERATIONS_DEFAULT}
    /\ gemini_api_key = TRUE
    /\ cite = None
    /\ score = None
    /\ parked = None
    /\ InitRun

ResumeGeneratingFinalAnswerPlaceholder == GeneratingFinalAnswer(PlaceholderOutcomes)

NextSynth ==
    \/ Start
    \/ ResumeGeneratingQueries
    \/ ResumeQueriesGenerated
    \/ ResumeStartingResearch
    \/ ResumeResearchingQuery
    \/ ResumeQueryCompleted
    \/ ResumeAnalyzingResults
    \/ ResumeReflectionCompleted
    \/ ResumeGeneratingFinalAnswerPlaceholder
    \/ ResumeAnswerChunk
    \/ Exhaust

SpecSynth == InitSynth /\ [][NextSynth]_vars

\* C25: after streaming synthesis the final_answer of the terminal response
\* holds no literal placeholder "[source title](url)" of a gathered source with
\* a url: each occurrence has been replaced by "[<title>](url)".
C25_PlaceholdersReplaced ==
    (pc \in {"completed", "done"} /\ IsCompleted(LastEvent) /\ SynthesisInvoked)
       => /\ \A s \in Range(sources_gathered) :
                s.url # <<>> => ~Occurs(Placeholder(s), response.final_answer)
          /\ response.final_answer
                = replace_placeholders(Flatten(final_answer_parts), sources_gathered)
          /\ LastEvent.data.final_answer = response.final_answer

----------------------------------------------------------------------------
\* the chunks of the answer_chunk events, in stream order
AnswerChunks ==
    LET sel == SelectSeq(events, LAMBDA e : e.type = "answer_chunk")
    IN  [k \in DOMAIN sel |-> sel[k].data.chunk]

\* the synthesis call failed: its handler, lines 879-889, yielded the fallback
SynthesisFailed ==
    /\ SynthesisInvoked
    /\ fallback_answer(request.query, sources_gathered) \in Range(AnswerChunks)

\* C26: when the synthesis call fails, at its start or after chunks were
\* forwarded, the run reaches finalize_answer/completed, its final_answer is
\* the fallback content, and no error event is emitted.
C26_SynthesisFailureGivesFallback ==
    (entry = "stream" /\ SynthesisFailed) =>
        /\ \A k \in DOMAIN events : events[k].type # "error"
        /\ pc = "done" => IsCompleted(LastEvent)
        /\ IsCompleted(LastEvent) =>
              /\ LastEvent.data.final_answer
                    = fallback_answer(request.query, sources_gathered)
              /\ response.final_answer = LastEvent.data.final_answer

----------------------------------------------------------------------------
\* the research calls whose response carried no grounding metadata
NoMetadataCalls ==
    {c \in Range(research_log) :
        c.result = web_research(gemini_api_key, [ok |-> TRUE, reply |-> RespPlain])}

\* C27: for a response without grounding metadata the research result has the
\* provider's raw text as its summary and as its response_text, no source and
\* no grounding support, and the query counts as successful: its summary is
\* among the results.
C27_NoMetadataKeepsRawText ==
    \A c \in NoMetadataCalls :
        /\ c.result.ok
        /\ c.result.summary = RespPlain.text
        /\ c.result.response_text = RespPlain.text
        /\ c.result.sources = <<>>
        /\ c.result.grounding_supports = <<>>
        /\ c.result.summary \in Range(iteration_results) \cup Range(web_research_results)

----------------------------------------------------------------------------
\* C28: in every run that reaches finalize_answer/completed, the final_answer
\* of the terminal event and of its response is the concatenation, in emission
\* order, of the chunks of all answer_chunk events of the run: in the
\* single-text shortcut, in the synthesis path and after the fallback.
C28_FinalAnswerIsChunkConcatenation ==
    \A k \in CompletedEvents :
        /\ events[k].data.final_answer = Flatten(AnswerChunks)
        /\ events[k].data.response_dump.final_answer = Flatten(AnswerChunks)
        /\ response.final_answer = Flatten(AnswerChunks)
        /\ synth.mode = "direct" => AnswerChunks = <<texts_with_citations[1]>>

C28_Witness ==
    /\ CompletedEvents # {}
    /\ SynthesisFailed
    /\ Len(AnswerChunks) = 2
    /\ sources_gathered # <<>>

----------------------------------------------------------------------------
\* the successful research calls of pass n
SuccessfulOf(n) == SelectSeq(Successful, LAMBDA c : c.iteration = n)

RECURSIVE SourcesFoundSum(_)
SourcesFoundSum(recorded) ==
    IF recorded = <<>> THEN 0
    ELSE Head(recorded).sources_found + SourcesFoundSum(Tail(recorded))

\* the last research call of the log failed
LastCallFailed(log) == log # <<>> /\ ~log[Len(log)].result.ok

\* C29: a query whose research call fails adds nothing to the pass's
\* summaries and sources nor to the search queries, grounding supports and
\* citation texts; the sources_found recorded for a pass is the sum of the
\* source counts of its successful queries; and at finalization the sum of
\* sources_found over the recorded passes is total_sources, the number of
\* sources gathered.
C29_FailedQueryAddsNothing ==
    /\ [][(Len(research_log') = Len(research_log) + 1 /\ LastCallFailed(research_log'))
            => /\ iteration_results' = iteration_results
               /\ iteration_sources' = iteration_sources
               /\ all_search_queries' = all_search_queries
               /\ all_grounding_supports' = all_grounding_supports
               /\ texts_with_citations' = texts_with_citations
               /\ iterations' = iterations
               /\ web_research_results' \in {web_research_results,
                                             web_research_results \o iteration_results}
               /\ sources_gathered' \in {sources_gathered,
                                         sources_gathered \o iteration_sources}]_vars
    /\ [](entry = "stream" =>
            /\ \A j \in DOMAIN iterations :
                  iterations[j].sources_found = Len(SourcesOf(SuccessfulOf(j)))
            /\ pc \in {"generating_final_answer", "answer_chunk", "completed", "done"}
                  /\ gemini_api_key
                  => /\ SourcesFoundSum(iterations) = Len(sources_gathered)
                     /\ Len(sources_gathered) = Len(SourcesOf(Successful))
                     /\ \A k \in DOMAIN events :
                           events[k].type = "finalize_answer"
                              => events[k].data.total_sources
                                    = SourcesFoundSum(iterations))

C29_Witness ==
    /\ pc = "done"
    /\ CompletedEvents # {}
    /\ Len(iterations) = 2
    /\ iterations[1].sources_found > 0
    /\ iterations[2].sources_found > 0
    /\ \E c \in Range(research_log) : ~c.result.ok /\ c.iteration = 1

----------------------------------------------------------------------------
(* runs in which every reflection provider call fails, lines 819-833 *)

InitReflectFail ==
    /\ entry = "stream"
    /\ request \in Requests
    /\ gemini_api_key = TRUE
    /\ cite = None
    /\ score = None
    /\ parked = None
    /\ InitRun

ResumeAnalyzingResultsFails == AnalyzingResults({Failure})

NextReflectFail ==
    \/ Start
    \/ ResumeGeneratingQueries
    \/ ResumeQueriesGenerated
    \/ ResumeStartingResearch
    \/ ResumeResearchingQuery
    \/ ResumeQueryCompleted
    \/ ResumeAnalyzingResultsFails
    \/ ResumeReflectionCompleted
    \/ ResumeGeneratingFinalAnswer
    \/ ResumeAnswerChunk
    \/ Exhaust

SpecReflectFail == InitReflectFail /\ [][NextReflectFail]_vars

GenericFollowUp == <<request.query \o " additional details">>

\* C30: when the reflection call fails in every pass, the run makes at most
\* two research passes whatever max_iterations is: the fallback of pass 1
\* declares sufficiency or proposes the one generic follow-up query, the
\* fallback of pass 2 declares sufficiency with no follow-up, and the second
\* pass researches exactly the one query "<topic> additional details".
C30_FailingReflectionStopsAtTwo ==
    /\ iteration_count <= 2
    /\ Len(iterations) <= 2
    /\ \A c \in Range(research_log) : c.iteration <= 2
    /\ pc = "reflection_completed" =>
          /\ iteration_count = 1 =>
                \/ reflection_result.is_sufficient
                \/ reflection_result.follow_up_queries = GenericFollowUp
          /\ iteration_count = 1 =>
                reflection_result.is_sufficient = (Len(iteration_results) >= 3)
          /\ iteration_count = 2 =>
                /\ reflection_result.is_sufficient
                /\ reflection_result.follow_up_queries = <<>>
    /\ iteration_count = 2 =>
          /\ queries = GenericFollowUp
          /\ request.max_iterations >= 2
          /\ Len(CallsOfIteration(2)) <= 1
          /\ \A k \in DOMAIN events :
                (HasStatus(events[k], "web_research", "researching_query")
                   /\ events[k].data.query # GenericFollowUp[1])
                  => \E j \in (k + 1)..Len(events) :
                        /\ HasStatus(events[j], "web_research", "starting_research")
                        /\ events[j].data.iteration = 2
    /\ \A k \in CompletedEvents :
          events[k].data.response_dump.total_iterations
             = (IF request.max_iterations >= 2
                   /\ Len(SuccessfulOf(1)) < 3 THEN 2 ELSE 1)

C30_Witness ==
    /\ pc = "done"
    /\ CompletedEvents # {}
    /\ request.max_iterations = MAX_ITERATIONS_LE
    /\ iteration_count = 2
    /\ Len(CallsOfIteration(2)) = 1
    /\ Len(CallsOfIteration(1)) = MaxGenerated

====
